---- MODULE Spec2Model ----
(***************************************************************************)
(* paramiko/server.py: the ServerInterface default policy (called on the   *)
(* transport's primary thread) and the SubsystemHandler thread that runs   *)
(* one subsystem on one channel.                                           *)
(*                                                                         *)
(* The control path is one process: each ServerInterface method is one     *)
(* atomic action.  Every SubsystemHandler is a thread of its own; its      *)
(* _run method is cut into steps at each call it makes (log, body, log,    *)
(* finish), so that threads interleave with each other and with the        *)
(* control path.                                                           *)
(***************************************************************************)
EXTENDS Integers, Sequences, FiniteSets, Bags, TLC

(* ------------------------------- bounds ------------------------------- *)

\* Number of subsystem handler objects ever constructed in a run.
MaxSessions == 2

(* ------------------------- values and inputs -------------------------- *)

\* The open channels the transport delivers requests on.
Channels == {1, 2}

\* Subsystem names a client may ask for.
Names == {"sftp", "mp3"}

\* No handler registered for a name: the handler_class None of line 253.
None == "None"

\* Registered handler classes, told apart by what they override.  Every
\* class supplies its own start_subsystem body; "DefaultFinish" inherits
\* finish_subsystem (lines 360-367), "CustomFinish" overrides it.
HandlerClasses == {"DefaultFinish", "CustomFinish"}

\* The registrations the deployment makes: an sftp handler that inherits
\* finish_subsystem and an mp3 handler that overrides it.
Registrations == {<<"sftp", "DefaultFinish">>, <<"mp3", "CustomFinish">>}

Usernames == {"root", "guest"}
Passwords == {"secret", ""}
Keys == {"rsa-key", "dss-key"}
Kinds == {"session", "x11"}
ChanIds == {0, 1}
Terms == {"vt100", "xterm"}
Dims == {0, 80}

\* common.py values used by server.py.
AUTH_SUCCESSFUL == "AUTH_SUCCESSFUL"
AUTH_PARTIALLY_SUCCESSFUL == "AUTH_PARTIALLY_SUCCESSFUL"
AUTH_FAILED == "AUTH_FAILED"
OPEN_SUCCEEDED == "OPEN_SUCCEEDED"
OPEN_FAILED_ADMINISTRATIVELY_PROHIBITED == "OPEN_FAILED_ADMINISTRATIVELY_PROHIBITED"
DEBUG == "DEBUG"
ERROR == "ERROR"

\* How start_subsystem (user code) can end.  "Exception" is a fault derived
\* from Exception; "ExceptionBadStr" is one derived from Exception whose
\* str() itself raises (a unicode message that does not encode);
\* "NonException" is a fault that `except Exception` does not match (a
\* string exception, a class not derived from Exception).
BodyOutcomes == {"return", "Exception", "ExceptionBadStr", "NonException"}
BodyFaults == BodyOutcomes \ {"return"}

\* What a finish_subsystem does: whether it gets to close the channel and
\* whether it raises.
FinishChoices == [closes : BOOLEAN, raises : BOOLEAN]

\* How a call made on the control path ends.
CallOutcomes == {"ok", "raise"}

VARIABLES
    subsystem_table,  \* the transport's registry: name -> handler class or None
    closed,           \* closed[c]: channel c has been closed
    closeCalls,       \* closeCalls[c]: calls of channel c's close() so far
    teardowns,        \* teardowns[c]: times channel c went from open to closed
    sessions,         \* the bag of SubsystemHandler objects whose thread was started
    log,              \* the bag of entries the transport's _log has been given
    lastCall,         \* the control path's latest call and what came of it
    accepted,         \* subsystem requests answered True so far
    active            \* the transport has not been shut down

vars == <<subsystem_table, closed, closeCalls, teardowns, sessions, log, lastCall,
          accepted, active>>

(* ------------------------- ServerInterface ---------------------------- *)

\* Lines 41-83.
check_channel_request(kind, chanid) == OPEN_FAILED_ADMINISTRATIVELY_PROHIBITED

\* Lines 85-102.
get_allowed_auths(username) == "password"

\* Lines 104-121.
check_auth_none(username) == AUTH_FAILED

\* A policy that lets one password in.
check_auth_password_accepting(username, password) ==
    IF password = "secret" THEN AUTH_SUCCESSFUL ELSE AUTH_FAILED

\* Lines 123-148.
check_auth_password(username, password) == AUTH_FAILED

\* Lines 150-177.
check_auth_publickey(username, key) == AUTH_FAILED

\* Lines 183-209.
check_channel_pty_request(channel, term, width, height, pixelwidth, pixelheight, modes) == FALSE

\* Lines 211-226.
check_channel_shell_request(channel) == FALSE

\* A policy that reports any non-empty window as resized.
check_channel_window_change_request_resizing(channel, width, height, pixelwidth, pixelheight) ==
    width > 0 /\ height > 0

\* Lines 259-280.
check_channel_window_change_request(channel, width, height, pixelwidth, pixelheight) == FALSE

\* A boolean as the control path records it.
Bool(b) == IF b THEN "True" ELSE "False"

Call(op, args, result) == [op |-> op, args |-> args, result |-> result]

\* The transport's registry lookup, channel.get_transport()._get_subsystem_handler(name).
_get_subsystem_handler(name) == subsystem_table[name]

\* A lookup that hands each registration out once and forgets it.
RegistryAfterPoppingLookup(name) == [subsystem_table EXCEPT ![name] = None]

\* The registry after line 252: the request looks the name up and writes
\* nothing back.
RegistryAfterLookup(name) == subsystem_table

\* Line 253 left out: every name is taken to have a handler.
HandlerFoundAlways(handler_class) == TRUE

\* Line 253, negated: the lookup found a handler class.
HandlerFound(handler_class) == handler_class # None

\* A handler whose body is run by the caller (run() where start() was
\* meant): it comes back from the request already in its body.
NewHandlerRunInline(channel, name, handler_class) ==
    [channel |-> channel, name |-> name, handler_class |-> handler_class,
     pc |-> "in_body", entered |-> TRUE, bodyCalls |-> 1, outcome |-> "pending",
     logFault |-> FALSE, finishCalls |-> 0, finishFault |-> FALSE]

\* SubsystemHandler.__init__, lines 314-317: the new object keeps the
\* channel and the name, and its thread is to run _run from its first line.
NewHandler(channel, name, handler_class) ==
    [channel |-> channel, name |-> name, handler_class |-> handler_class,
     pc |-> "created", entered |-> FALSE, bodyCalls |-> 0, outcome |-> "pending",
     logFault |-> FALSE, finishCalls |-> 0, finishFault |-> FALSE]

(* ------------------------ SubsystemHandler._run ----------------------- *)

\* _run with finish_subsystem called from the except clause only: a body
\* that returns normally ends the thread at once.
RunFinishOnlyAfterFault(pc, ev) ==
    CASE pc = "created"   -> (IF ev = "raise" THEN "except" ELSE "call_body")
      [] pc = "call_body" -> "in_body"
      [] pc = "in_body"   -> (IF ev = "return" THEN "done"
                              ELSE IF ev \in {"Exception", "ExceptionBadStr"} THEN "except"
                              ELSE "escaped")
      [] pc = "except"    -> (IF ev = "raise" THEN "escaped" ELSE "except_tb")
      [] pc = "except_tb" -> (IF ev = "raise" THEN "escaped" ELSE "finish")
      [] pc = "finish"    -> "done"
      [] OTHER            -> pc

\* _run with the finish step outside any try: what finish_subsystem raises
\* leaves _run.
RunFinishFaultEscapes(pc, ev) ==
    CASE pc = "created"   -> (IF ev = "raise" THEN "except" ELSE "call_body")
      [] pc = "call_body" -> "in_body"
      [] pc = "in_body"   -> (IF ev = "return" THEN "finish"
                              ELSE IF ev \in {"Exception", "ExceptionBadStr"} THEN "except"
                              ELSE "escaped")
      [] pc = "except"    -> (IF ev = "raise" THEN "escaped" ELSE "except_tb")
      [] pc = "except_tb" -> (IF ev = "raise" THEN "escaped" ELSE "finish")
      [] pc = "finish"    -> (IF ev = "raise" THEN "escaped" ELSE "done")
      [] OTHER            -> pc

\* _run with the finish step in a loop that tries again when it raises.
RunRetriesFinish(pc, ev) ==
    CASE pc = "created"   -> (IF ev = "raise" THEN "except" ELSE "call_body")
      [] pc = "call_body" -> "in_body"
      [] pc = "in_body"   -> (IF ev = "return" THEN "finish"
                              ELSE IF ev \in {"Exception", "ExceptionBadStr"} THEN "except"
                              ELSE "escaped")
      [] pc = "except"    -> (IF ev = "raise" THEN "escaped" ELSE "except_tb")
      [] pc = "except_tb" -> (IF ev = "raise" THEN "escaped" ELSE "finish")
      [] pc = "finish"    -> (IF ev = "raise" THEN "finish" ELSE "done")
      [] OTHER            -> pc

\* _run with `except Exception: pass`: a fault of the body is dropped
\* without a word in the log.
RunSwallowsSilently(pc, ev) ==
    CASE pc = "created"   -> (IF ev = "raise" THEN "except" ELSE "call_body")
      [] pc = "call_body" -> "in_body"
      [] pc = "in_body"   -> (IF ev = "return" THEN "finish"
                              ELSE IF ev \in {"Exception", "ExceptionBadStr"} THEN "finish"
                              ELSE "escaped")
      [] pc = "except"    -> (IF ev = "raise" THEN "escaped" ELSE "except_tb")
      [] pc = "except_tb" -> (IF ev = "raise" THEN "escaped" ELSE "finish")
      [] pc = "finish"    -> "done"
      [] OTHER            -> pc

\* _run with the call of start_subsystem left out: the thread logs the start
\* and goes on to finish_subsystem.
RunSkipsBody(pc, ev) ==
    CASE pc = "created"   -> (IF ev = "raise" THEN "except" ELSE "finish")
      [] pc = "call_body" -> "in_body"
      [] pc = "in_body"   -> (IF ev = "return" THEN "finish"
                              ELSE IF ev \in {"Exception", "ExceptionBadStr"} THEN "except"
                              ELSE "escaped")
      [] pc = "except"    -> (IF ev = "raise" THEN "escaped" ELSE "except_tb")
      [] pc = "except_tb" -> (IF ev = "raise" THEN "escaped" ELSE "finish")
      [] pc = "finish"    -> "done"
      [] OTHER            -> pc

\* The control flow of _run, lines 319-330: the position after the step at
\* pc has ended with event ev.
\*   created    line 321, the DEBUG log call is the thread's first step
\*   call_body  line 322, start_subsystem is called
\*   in_body    start_subsystem is running; ev is how it ends
\*   except     lines 324-325, the first ERROR log call of the handler
\*   except_tb  line 326, the second ERROR log call
\*   finish     lines 327-330, finish_subsystem under a bare except
\*   done       _run has returned
\*   escaped    a fault has left _run; the thread is dead
_run(pc, ev) ==
    CASE pc = "created"   -> (IF ev = "raise" THEN "except" ELSE "call_body")
      [] pc = "call_body" -> "in_body"
      [] pc = "in_body"   -> (IF ev = "return" THEN "finish"
                              ELSE IF ev \in {"Exception", "ExceptionBadStr"} THEN "except"
                              ELSE "escaped")
      [] pc = "except"    -> (IF ev = "raise" THEN "escaped" ELSE "except_tb")
      [] pc = "except_tb" -> (IF ev = "raise" THEN "escaped" ELSE "finish")
      [] pc = "finish"    -> "done"
      [] OTHER            -> pc

\* A finish step that a watchdog also runs on a handler whose body is
\* still running once the transport is down.
FinishDueOnShutdown(h) == h.pc = "finish" \/ (h.pc = "in_body" /\ ~active)

\* Lines 327-328: finish_subsystem is called when the first try statement
\* of _run is through, and not before.
FinishDue(h) == h.pc = "finish"

\* A channel kept where all handlers share it.
BoundChannelShared(h) == 1

\* Line 367, self.__channel: the channel the handler was constructed with
\* (line 315).
BoundChannel(h) == h.channel

\* finish_subsystem, lines 360-367: the inherited one closes the channel
\* and nothing else; an overriding one does what it chooses.
finish_subsystem(handler_class, choice) ==
    IF handler_class = "DefaultFinish"
    THEN [closes |-> TRUE, raises |-> FALSE]
    ELSE choice

\* Channel.close(): idempotent teardown; a call on a closed channel does
\* nothing and is no error.
CloseChannel(c) ==
    /\ closed' = [closed EXCEPT ![c] = TRUE]
    /\ closeCalls' = [closeCalls EXCEPT ![c] = @ + 1]
    /\ teardowns' = [teardowns EXCEPT ![c] = IF closed[c] THEN @ ELSE @ + 1]

\* One entry of the transport's log: level, message and the subsystem named.
Entry(level, msg, name) == [level |-> level, msg |-> msg, name |-> name]

Logged(entry) == log' = log (+) SetToBag({entry})

\* Handler h becomes h2.
Becomes(h, h2) == sessions' = (sessions (-) SetToBag({h})) (+) SetToBag({h2})

Handlers == BagToSet(sessions)

(* ----------------------------- Init ----------------------------------- *)

Init ==
    /\ subsystem_table = [n \in Names |-> None]
    /\ closed = [c \in Channels |-> FALSE]
    /\ closeCalls = [c \in Channels |-> 0]
    /\ teardowns = [c \in Channels |-> 0]
    /\ sessions = EmptyBag
    /\ log = EmptyBag
    /\ lastCall = Call("none", <<>>, "none")
    /\ accepted = 0
    /\ active = TRUE

(* ----------------------- control path actions ------------------------- *)

\* A call of a default policy method changes nothing but what is returned.
Returned(op, args, result) ==
    /\ active
    /\ lastCall' = Call(op, args, result)
    /\ UNCHANGED <<subsystem_table, closed, closeCalls, teardowns, sessions, log, accepted, active>>

CheckChannelRequest ==
    \E kind \in Kinds, chanid \in ChanIds :
        Returned("check_channel_request", <<kind, chanid>>, check_channel_request(kind, chanid))

GetAllowedAuths ==
    \E username \in Usernames :
        Returned("get_allowed_auths", <<username>>, get_allowed_auths(username))

CheckAuthNone ==
    \E username \in Usernames :
        Returned("check_auth_none", <<username>>, check_auth_none(username))

CheckAuthPassword ==
    \E username \in Usernames, password \in Passwords :
        Returned("check_auth_password", <<username, password>>, check_auth_password(username, password))

CheckAuthPublickey ==
    \E username \in Usernames, key \in Keys :
        Returned("check_auth_publickey", <<username, key>>, check_auth_publickey(username, key))

CheckChannelPtyRequest(channel) ==
    /\ ~closed[channel]
    /\ \E term \in Terms, width \in Dims, height \in Dims, pixelwidth \in Dims, pixelheight \in Dims :
        Returned("check_channel_pty_request",
                 <<channel, term, width, height, pixelwidth, pixelheight>>,
                 Bool(check_channel_pty_request(channel, term, width, height,
                                                pixelwidth, pixelheight, "")))

CheckChannelShellRequest(channel) ==
    /\ ~closed[channel]
    /\ Returned("check_channel_shell_request", <<channel>>, Bool(check_channel_shell_request(channel)))

CheckChannelWindowChangeRequest(channel) ==
    /\ ~closed[channel]
    /\ \E width \in Dims, height \in Dims, pixelwidth \in Dims, pixelheight \in Dims :
        Returned("check_channel_window_change_request",
                 <<channel, width, height, pixelwidth, pixelheight>>,
                 Bool(check_channel_window_change_request(channel, width, height,
                                                          pixelwidth, pixelheight)))

\* check_channel_subsystem_request, lines 252-257.  ctor is how the call of
\* the handler class (line 255) ends and start how handler.start() (line
\* 256) ends: the registered class may override __init__, and a thread may
\* fail to start.  Nothing in the method catches either.
check_channel_subsystem_request(channel, name) ==
    /\ active
    /\ ~closed[channel]
    /\ subsystem_table' = RegistryAfterLookup(name)
    /\ UNCHANGED <<closed, closeCalls, teardowns, log, active>>
    /\ LET handler_class == _get_subsystem_handler(name) IN
       IF ~HandlerFound(handler_class)
       THEN /\ lastCall' = Call("check_channel_subsystem_request", <<channel, name>>, "False")
            /\ UNCHANGED <<sessions, accepted>>
       ELSE /\ BagCardinality(sessions) < MaxSessions
            /\ \E ctor \in CallOutcomes, start \in CallOutcomes :
                IF ctor = "ok" /\ start = "ok"
                THEN /\ sessions' = sessions (+) SetToBag({NewHandler(channel, name, handler_class)})
                     /\ lastCall' = Call("check_channel_subsystem_request", <<channel, name>>, "True")
                     /\ accepted' = accepted + 1
                ELSE /\ lastCall' = Call("check_channel_subsystem_request", <<channel, name>>, "raise")
                     /\ UNCHANGED <<sessions, accepted>>

\* Transport.set_subsystem_handler(name, handler): the explicit registration
\* call; the latest registration of a name replaces the earlier one.
set_subsystem_handler(name, handler_class) ==
    /\ subsystem_table[name] # handler_class
    /\ subsystem_table' = [subsystem_table EXCEPT ![name] = handler_class]
    /\ UNCHANGED <<closed, closeCalls, teardowns, sessions, log, lastCall, accepted, active>>

\* The transport is shut down from outside (Transport.close, or the
\* connection going away): no request is delivered any more.  Nothing in
\* it reaches into a handler thread.
TransportShutdown ==
    /\ active
    /\ active' = FALSE
    /\ UNCHANGED <<subsystem_table, closed, closeCalls, teardowns, sessions, log, lastCall, accepted>>

(* ----------------------- handler thread actions ----------------------- *)

\* Line 321: the thread's first step logs the start.
RunLogStart(h) ==
    /\ h.pc = "created"
    /\ Logged(Entry(DEBUG, "Starting handler for subsystem", h.name))
    /\ Becomes(h, [h EXCEPT !.pc = _run(h.pc, "ok")])
    /\ UNCHANGED <<subsystem_table, closed, closeCalls, teardowns, lastCall, accepted, active>>

\* Line 322: start_subsystem is entered.
RunCallBody(h) ==
    /\ h.pc = "call_body"
    /\ Becomes(h, [h EXCEPT !.pc = _run(h.pc, "ok"), !.entered = TRUE, !.bodyCalls = @ + 1])
    /\ UNCHANGED <<subsystem_table, closed, closeCalls, teardowns, log, lastCall, accepted, active>>

\* The body (user code) closes its channel, as a handler that has seen the
\* end of its input does.
BodyClosesChannel(h) ==
    /\ h.pc = "in_body"
    /\ ~closed[h.channel]
    /\ CloseChannel(h.channel)
    /\ UNCHANGED <<subsystem_table, sessions, log, lastCall, accepted, active>>

\* start_subsystem ends: it returns or raises.  A body that never ends
\* stays in_body.
BodyEnds(h) ==
    /\ h.pc = "in_body"
    /\ \E outcome \in BodyOutcomes :
        Becomes(h, [h EXCEPT !.pc = _run(h.pc, outcome), !.outcome = outcome])
    /\ UNCHANGED <<subsystem_table, closed, closeCalls, teardowns, log, lastCall, accepted, active>>

\* Lines 324-325: the message is built with str(e) and logged.
RunLogException(h) ==
    /\ h.pc = "except"
    /\ IF h.outcome = "ExceptionBadStr"
       THEN /\ Becomes(h, [h EXCEPT !.pc = _run(h.pc, "raise")])
            /\ UNCHANGED log
       ELSE /\ Logged(Entry(ERROR, "Exception in subsystem handler", h.name))
            /\ Becomes(h, [h EXCEPT !.pc = _run(h.pc, "ok")])
    /\ UNCHANGED <<subsystem_table, closed, closeCalls, teardowns, lastCall, accepted, active>>

\* Line 326: the traceback is logged.
RunLogTraceback(h) ==
    /\ h.pc = "except_tb"
    /\ Logged(Entry(ERROR, "traceback", h.name))
    /\ Becomes(h, [h EXCEPT !.pc = _run(h.pc, "ok")])
    /\ UNCHANGED <<subsystem_table, closed, closeCalls, teardowns, lastCall, accepted, active>>

\* Lines 327-330: finish_subsystem is called once, and whatever it raises
\* is dropped.
RunFinish(h) ==
    /\ FinishDue(h)
    /\ \E choice \in FinishChoices :
        LET did == finish_subsystem(h.handler_class, choice) IN
        /\ IF did.closes THEN CloseChannel(BoundChannel(h)) ELSE UNCHANGED <<closed, closeCalls, teardowns>>
        /\ Becomes(h, [h EXCEPT !.pc = _run(h.pc, IF did.raises THEN "raise" ELSE "ok"),
                               !.finishCalls = @ + 1,
                               !.finishFault = did.raises])
    /\ UNCHANGED <<subsystem_table, log, lastCall, accepted, active>>

(* ------------------------ a log sink that raises ---------------------- *)

\* Line 321 with _log raising an Exception: the except clause takes it, and
\* start_subsystem is not called.
RunLogStartRaises(h) ==
    /\ h.pc = "created"
    /\ Becomes(h, [h EXCEPT !.pc = _run(h.pc, "raise"), !.logFault = TRUE])
    /\ UNCHANGED <<subsystem_table, closed, closeCalls, teardowns, log, lastCall, accepted, active>>

\* Lines 324-325 with _log raising: the fault is raised inside the except
\* clause, where nothing catches it.
RunLogExceptionRaises(h) ==
    /\ h.pc = "except"
    /\ h.outcome # "ExceptionBadStr"
    /\ Becomes(h, [h EXCEPT !.pc = _run(h.pc, "raise"), !.logFault = TRUE])
    /\ UNCHANGED <<subsystem_table, closed, closeCalls, teardowns, log, lastCall, accepted, active>>

\* Line 326 with _log raising.
RunLogTracebackRaises(h) ==
    /\ h.pc = "except_tb"
    /\ Becomes(h, [h EXCEPT !.pc = _run(h.pc, "raise"), !.logFault = TRUE])
    /\ UNCHANGED <<subsystem_table, closed, closeCalls, teardowns, log, lastCall, accepted, active>>

(* --------------------------- specification ---------------------------- *)

\* The control path alone, deciding with the default policy.
NextPolicy ==
    \/ CheckChannelRequest
    \/ GetAllowedAuths
    \/ CheckAuthNone
    \/ CheckAuthPassword
    \/ CheckAuthPublickey
    \/ \E channel \in Channels : CheckChannelPtyRequest(channel)
    \/ \E channel \in Channels : CheckChannelShellRequest(channel)
    \/ \E channel \in Channels : CheckChannelWindowChangeRequest(channel)
    \/ \E channel \in Channels, name \in Names : check_channel_subsystem_request(channel, name)
    \/ \E r \in Registrations : set_subsystem_handler(r[1], r[2])

\* Subsystem dispatch on the control path and the handler threads.
Next ==
    \/ \E channel \in Channels, name \in Names : check_channel_subsystem_request(channel, name)
    \/ \E r \in Registrations : set_subsystem_handler(r[1], r[2])
    \/ TransportShutdown
    \/ \E h \in Handlers : RunLogStart(h)
    \/ \E h \in Handlers : RunCallBody(h)
    \/ \E h \in Handlers : BodyClosesChannel(h)
    \/ \E h \in Handlers : BodyEnds(h)
    \/ \E h \in Handlers : RunLogException(h)
    \/ \E h \in Handlers : RunLogTraceback(h)
    \/ \E h \in Handlers : RunFinish(h)

\* The same with a transport whose _log may raise.
NextLogFault ==
    \/ Next
    \/ \E h \in Handlers : RunLogStartRaises(h)
    \/ \E h \in Handlers : RunLogExceptionRaises(h)
    \/ \E h \in Handlers : RunLogTracebackRaises(h)

SpecPolicy == Init /\ [][NextPolicy]_vars

SpecLogFault == Init /\ [][NextLogFault]_vars

Spec == Init /\ [][Next]_vars

(* ------------------------- session vocabulary ------------------------- *)

\* The state of a handler in the words of the lifecycle: CREATED until its
\* thread runs the first line of _run, FINISHED once the finish step has
\* been run and _run has returned, RUNNING in between.  A thread that a
\* fault has killed never gets to FINISHED.
State(h) ==
    IF h.pc = "created" THEN "CREATED"
    ELSE IF h.pc = "done" THEN "FINISHED"
    ELSE "RUNNING"

\* The thread of h has ended, one way or the other.
Terminated(h) == h.pc \in {"done", "escaped"}

\* h has been started and has not finished; a dead thread is not live.
Live(h) == ~Terminated(h)

\* The log holds an entry of this level and message naming the subsystem.
HasEntry(level, msg, name) == BagIn(Entry(level, msg, name), log)

\* The number of handlers in the set hs, each counted as often as it occurs.
Count(hs) == BagCardinality([h \in hs |-> sessions[h]])

(* ------------------------------- C1 ----------------------------------- *)

\* C1: a session whose body ends with a fault, of whatever kind, still
\* reaches FINISHED: once its thread has ended, the finish step has been
\* run once and its channel has been closed exactly once.  (Stated for the
\* inherited finish_subsystem.)
C1_FaultStillFinishes ==
    \A h \in Handlers :
        (h.outcome \in BodyFaults /\ h.handler_class = "DefaultFinish" /\ Terminated(h))
            => /\ h.pc = "done"
               /\ h.finishCalls = 1
               /\ closed[h.channel]
               /\ teardowns[h.channel] = 1

(* ------------------------------- C2 ----------------------------------- *)

C3_FaultCaughtAndLogged ==
    \A h \in Handlers :
        h.outcome \in BodyFaults
            => /\ h.pc # "escaped"
               /\ h.pc \in {"except_tb", "finish", "done"}
                    => HasEntry(ERROR, "Exception in subsystem handler", h.name)

(* ------------------------------- C4 ----------------------------------- *)

\* The latest call on the control path was this subsystem request.
SubsystemRequested(channel, name) ==
    /\ lastCall.op = "check_channel_subsystem_request"
    /\ lastCall.args = <<channel, name>>

\* C4: a call check_channel_subsystem_request(channel, name) returns True
\* if and only if the registry has a handler for name, and a call that
\* returns True has constructed and started exactly one handler, bound to
\* that channel and that name.
C4_TrueIffRegistered ==
    [][\A channel \in Channels, name \in Names :
        check_channel_subsystem_request(channel, name)
            => /\ (lastCall'.result = "True") <=> (_get_subsystem_handler(name) # None)
               /\ lastCall'.result = "True"
                    => sessions' = sessions (+) SetToBag({NewHandler(channel, name,
                                                          _get_subsystem_handler(name))})
               /\ lastCall'.result # "True" => sessions' = sessions]_vars

(* ------------------------------- C5 ----------------------------------- *)

\* C5: a subsystem request for a name that is not registered answers False
\* and changes nothing: no handler is constructed or started, nothing is
\* logged, no channel is closed, the registry stays as it is.
C5_UnregisteredChangesNothing ==
    [][\A channel \in Channels, name \in Names :
        (check_channel_subsystem_request(channel, name) /\ subsystem_table[name] = None)
            => /\ lastCall'.result = "False"
               /\ UNCHANGED <<sessions, log, closed, closeCalls, teardowns, subsystem_table>>]_vars

\* A request for an unregistered name has been answered while a handler of
\* a registered name is there.
C5_Witness ==
    /\ \E channel \in Channels, name \in Names :
        /\ SubsystemRequested(channel, name)
        /\ subsystem_table[name] = None
    /\ lastCall.result = "False"
    /\ sessions # EmptyBag

(* ------------------------------- C6 ----------------------------------- *)

\* C6: in every reachable state no two handlers that have not finished are
\* bound to the same channel.
C6_OneLiveSessionPerChannel ==
    \A channel \in Channels :
        Count({h \in Handlers : h.channel = channel /\ Live(h)}) <= 1

(* ------------------------------- C7 ----------------------------------- *)

\* How far into _run a position is.
Rank(pc) ==
    CASE pc = "created"   -> 0
      [] pc = "call_body" -> 1
      [] pc = "in_body"   -> 2
      [] pc = "except"    -> 3
      [] pc = "except_tb" -> 4
      [] pc = "finish"    -> 5
      [] OTHER            -> 6

\* One handler's move from h to h2 is a move of the lifecycle: forward in
\* _run, and either within one state or CREATED -> RUNNING or
\* RUNNING -> FINISHED.
LifecycleMove(h, h2) ==
    /\ Rank(h.pc) < Rank(h2.pc)
    /\ \/ State(h) = State(h2) /\ State(h) = "RUNNING"
       \/ State(h) = "CREATED" /\ State(h2) = "RUNNING"
       \/ State(h) = "RUNNING" /\ State(h2) = "FINISHED"
    /\ h.entered => h2.entered
    /\ (h2.entered /\ ~h.entered) => (h.pc = "call_body" /\ h2.pc = "in_body")

\* A step leaves the handlers alone, adds one in CREATED, or moves one by a
\* move of the lifecycle.
LifecycleStep ==
    \/ sessions' = sessions
    \/ \E h2 \in BagToSet(sessions') :
        /\ sessions' = sessions (+) SetToBag({h2})
        /\ State(h2) = "CREATED"
    \/ \E h \in Handlers, h2 \in BagToSet(sessions') :
        /\ sessions' = (sessions (-) SetToBag({h})) (+) SetToBag({h2})
        /\ LifecycleMove(h, h2)

C8_DefaultDeniesAll ==
    /\ lastCall.op \in {"check_auth_none", "check_auth_password", "check_auth_publickey"}
        => lastCall.result = AUTH_FAILED
    /\ lastCall.op = "check_channel_request"
        => lastCall.result = OPEN_FAILED_ADMINISTRATIVELY_PROHIBITED
    /\ lastCall.op = "get_allowed_auths" => lastCall.result = "password"

\* The password that a lenient policy would take has been refused, after a
\* subsystem handler had been started.
C8_Witness ==
    /\ lastCall = Call("check_auth_password", <<"root", "secret">>, AUTH_FAILED)
    /\ sessions # EmptyBag

(* ------------------------------- C9 ----------------------------------- *)

ChannelRequestOps ==
    {"check_channel_pty_request", "check_channel_shell_request",
     "check_channel_window_change_request"}

\* C9: the default pty, shell and window-change decisions return False for
\* every channel and every argument, in every state, and a call of one of
\* them constructs no handler and closes no channel.
C9_ChannelRequestsRefused ==
    /\ [](lastCall.op \in ChannelRequestOps => lastCall.result = "False")
    /\ [][(\E channel \in Channels :
                \/ CheckChannelPtyRequest(channel)
                \/ CheckChannelShellRequest(channel)
                \/ CheckChannelWindowChangeRequest(channel))
            => UNCHANGED <<sessions, closed, closeCalls, teardowns, log, subsystem_table>>]_vars

\* A window change with a real size has been refused on a channel that a
\* handler is bound to.
C9_Witness ==
    /\ lastCall.op = "check_channel_window_change_request"
    /\ lastCall.args[2] > 0 /\ lastCall.args[3] > 0
    /\ lastCall.result = "False"
    /\ \E h \in Handlers : h.channel = lastCall.args[1]

(* ------------------------------- C10 ---------------------------------- *)

\* C10: a call of check_channel_subsystem_request never raises into the
\* control path; it always returns a boolean.
C10_AlwaysReturnsBoolean ==
    lastCall.op = "check_channel_subsystem_request" => lastCall.result \in {"True", "False"}

(* ------------------------------- C11 ---------------------------------- *)

\* C11: a fault of the finish step stays inside _run: the finish step is
\* called at most once per handler, and a handler whose finish step raised
\* has ended in FINISHED all the same.
C11_FinishFaultAbsorbed ==
    \A h \in Handlers :
        /\ h.finishCalls <= 1
        /\ h.finishFault => (State(h) = "FINISHED" /\ h.finishCalls = 1)
        /\ h.pc = "escaped" => h.finishCalls = 0

\* A finish step has raised and its handler is FINISHED.
C11_Witness ==
    \E h \in Handlers : h.finishFault /\ State(h) = "FINISHED" /\ h.finishCalls = 1

(* ------------------------------- C12 ---------------------------------- *)

\* C12: whenever a handler is FINISHED its channel is closed, on every way
\* out: the body returned, the body raised, the finish step itself raised.
C12_FinishedMeansClosed ==
    \A h \in Handlers :
        (State(h) = "FINISHED" /\ (h.handler_class = "DefaultFinish" \/ h.finishFault))
            => closed[h.channel]

(* ------------------------------- C13 ---------------------------------- *)

\* C13: a request that returns True leaves behind a handler that has been
\* started and has not entered its body, and moves no other handler; and
\* whatever the handlers are doing -- a body running, a body that never
\* returns -- the control path can decide the next subsystem request (up to
\* the model's cap on handlers).
C13_Decoupled ==
    /\ [](\A channel \in Channels, name \in Names :
            (/\ active
             /\ ~closed[channel]
             /\ subsystem_table[name] = None \/ BagCardinality(sessions) < MaxSessions)
                => ENABLED check_channel_subsystem_request(channel, name))
    /\ [][\A channel \in Channels, name \in Names :
            (check_channel_subsystem_request(channel, name) /\ lastCall'.result = "True")
                => \E h2 \in BagToSet(sessions') :
                    /\ sessions' = sessions (+) SetToBag({h2})
                    /\ h2.pc = "created"
                    /\ h2.bodyCalls = 0
                    /\ h2.outcome = "pending"]_vars

\* A request has been accepted and its handler not yet run, while another
\* handler is in its body.
C13_Witness ==
    /\ lastCall.op = "check_channel_subsystem_request"
    /\ lastCall.result = "True"
    /\ \E h \in Handlers, h2 \in Handlers :
        /\ h.pc = "in_body"
        /\ h2.pc = "created"
        /\ lastCall.args = <<h2.channel, h2.name>>

(* ------------------------------- C14 ---------------------------------- *)

\* C14: shutting the transport down moves no handler and closes no channel;
\* a handler whose body has not ended has had no finish step, and the only
\* step that takes it out of its body is the body's own end; no handler is
\* FINISHED whose body has not returned or raised.
C14_ShutdownForcesNothing ==
    /\ [](\A h \in Handlers :
            /\ h.outcome = "pending" => (h.finishCalls = 0 /\ State(h) # "FINISHED")
            /\ h.pc = "in_body" => State(h) = "RUNNING")
    /\ [][TransportShutdown => UNCHANGED <<sessions, closed, closeCalls, teardowns, log>>]_vars
    /\ [][\A h \in Handlers :
            (h.pc = "in_body" /\ CopiesIn(h, sessions') < CopiesIn(h, sessions))
                => BodyEnds(h)]_vars

\* The transport is down and a body is still running.
C14_Witness ==
    /\ ~active
    /\ \E h \in Handlers : h.pc = "in_body" /\ State(h) = "RUNNING" /\ ~closed[h.channel]

(* ------------------------------- C15 ---------------------------------- *)

\* C15: there are as many handlers started as subsystem requests answered
\* True, and each handler's body and finish step are called at most once.
C15_OneTaskPerSession ==
    /\ accepted = BagCardinality(sessions)
    /\ \A h \in Handlers :
        /\ h.bodyCalls <= 1
        /\ h.finishCalls <= 1
        /\ State(h) = "FINISHED" => (h.bodyCalls = 1 /\ h.finishCalls = 1)

\* Two requests were accepted and a handler whose finish step raised has
\* run body and finish once each.
C15_Witness ==
    /\ accepted = 2
    /\ \E h \in Handlers :
        State(h) = "FINISHED" /\ h.finishFault /\ h.bodyCalls = 1 /\ h.finishCalls = 1

(* ------------------------------- C16 ---------------------------------- *)

\* The handlers of subsystem name that are past line 321.
PastStartLog(name) == {h \in Handlers : h.name = name /\ h.pc # "created"}

\* The handlers of subsystem name that are past lines 324-325.
PastErrorLog(name) ==
    {h \in Handlers :
        h.name = name /\ h.outcome = "Exception" /\ h.pc \in {"except_tb", "finish", "done"}}

\* The handlers of subsystem name that are past line 326.
PastTracebackLog(name) ==
    {h \in Handlers : h.name = name /\ h.outcome = "Exception" /\ h.pc \in {"finish", "done"}}

C17_LogFaultStillFinishes ==
    \A h \in Handlers :
        h.logFault
            => /\ h.pc # "escaped"
               /\ (h.pc = "done" /\ h.handler_class = "DefaultFinish")
                    => (h.finishCalls = 1 /\ closed[h.channel])

(* ------------------------------- C18 ---------------------------------- *)

\* The step handler h takes next.
HandlerStep(h) ==
    \/ RunLogStart(h)
    \/ RunCallBody(h)
    \/ BodyEnds(h)
    \/ RunLogException(h)
    \/ RunLogTraceback(h)
    \/ RunFinish(h)

\* C18: a channel is touched only by a step of a handler constructed with
\* it -- a close made by its body, or its finish step; every step moves one
\* handler at most; and whatever has become of the other
\* handlers -- a body that raised, a thread that died, a finish step that
\* raised -- a handler that has not ended can take its next step, and one
\* that is FINISHED with the inherited finish step has its channel closed.
C18_SessionsIsolated ==
    /\ [][\A c \in Channels :
            (closeCalls'[c] # closeCalls[c] \/ closed'[c] # closed[c]
                \/ teardowns'[c] # teardowns[c])
                => \E h \in Handlers :
                    /\ h.channel = c
                    /\ \/ h.pc = "in_body" /\ sessions' = sessions
                       \/ h.pc = "finish" /\ CopiesIn(h, sessions') < CopiesIn(h, sessions)]_vars
    /\ [][sessions' # sessions
            => \/ \E h2 \in BagToSet(sessions') : sessions' = sessions (+) SetToBag({h2})
               \/ \E h \in Handlers, h2 \in BagToSet(sessions') :
                    /\ CopiesIn(h, sessions') < CopiesIn(h, sessions)
                    /\ sessions' = (sessions (-) SetToBag({h})) (+) SetToBag({h2})]_vars
    /\ [](\A h \in Handlers : Live(h) => ENABLED HandlerStep(h))
    /\ [](\A h \in Handlers :
            (h.pc = "done" /\ h.handler_class = "DefaultFinish") => closed[h.channel])

\* One handler's thread has died on a fault with its channel left open; a
\* handler on the other channel has finished and closed its own.
C18_Witness ==
    \E h \in Handlers, h2 \in Handlers :
        /\ h.channel # h2.channel
        /\ h.pc = "escaped"
        /\ ~closed[h.channel]
        /\ h2.pc = "done"
        /\ closed[h2.channel]
        /\ teardowns[h2.channel] = 1

(* ------------------------------- C19 ---------------------------------- *)

\* C19: the registry changes in a registration call and in no other step:
\* not in a subsystem request, whatever it returns, and not in a step of a
\* handler.
C19_RegistryOnlyRead ==
    [][subsystem_table' # subsystem_table
        => \E r \in Registrations : set_subsystem_handler(r[1], r[2])]_vars

\* A request was accepted, its handler has ended, and the registration it
\* came from is still in the registry.
C19_Witness ==
    /\ accepted > 0
    /\ \E h \in Handlers : Terminated(h) /\ subsystem_table[h.name] = h.handler_class

====
